---------------------------- MODULE Spec2Model ----------------------------
(***************************************************************************)
(* A model of pyopg: the SGR sequence renderer of pyopg/color.py.          *)
(*                                                                         *)
(* Text is modelled as a sequence of character code points, so that the    *)
(* escape sequences are byte exact: ESC is 27, "[" is 91, "m" is 109, ";"  *)
(* is 59 and the digits are 48..57.  A Seq object is a record of its bytes *)
(* (codes) and its instance __dict__, in which functools.cached_property   *)
(* stores csi_attributes and csi_seq.  The client of the module holds Seq  *)
(* objects in its variables (heap) and calls the methods of the class on   *)
(* them; result is what the last call returned or raised.                  *)
(***************************************************************************)
EXTENDS Integers, Sequences, FiniteSets, TLC

VARIABLES heap, result, members, looked, loaded, tool, entries, frame,
          descs, dicts, answer, last

vars == <<heap, result, members, looked, loaded, tool, entries, frame,
          descs, dicts, answer, last>>

\* What an operation of color.Seq leaves alone, and what the enumerations do.
notColorVars == <<members, looked, loaded, tool, entries, frame,
                  descs, dicts, answer, last>>
notEnumVars == <<heap, result, loaded, tool, entries, frame,
                 descs, dicts, answer, last>>
notLogVars == <<heap, result, members, looked, descs, dicts, answer, last>>
notDescVars == <<heap, result, members, looked, loaded, tool, entries, frame>>

\* ------------------------------------------------------------------ bounds
\* A call of Seq(...) passes at most MaxLen codes.
MaxLen == 2

\* The variables of the client.
Names == {"a", "b"}

\* --------------------------------------------------------------- characters
ESC == 27
LBRACKET == 91
LOWER_M == 109
SEMICOLON == 59
DIGIT_ZERO == 48
MINUS == 45

\* ------------------------------------------------------- enumerations of codes
\* EnumCodes(name, pairs): the enumeration whose members are the given
\* (name, value) pairs, as the function from a member's name to its value.
EnumCodes(pairs) ==
  [n \in {pairs[k][1] : k \in DOMAIN pairs} |->
     pairs[CHOOSE k \in DOMAIN pairs : pairs[k][1] = n][2]]

\* The (name, value) pairs of the styles.
STY_pairs ==
  << <<"RESET", 0>>, <<"BOLD", 1>>, <<"DIM", 2>>, <<"ITALIC", 3>>,
     <<"UNDER", 4>>, <<"BLINK", 5>>, <<"RAPID", 6>>, <<"INVERT", 7>>,
     <<"HIDE", 8>>, <<"CROSS", 9>> >>

\* STY = EnumCodes('STY', ...)
STY == EnumCodes(STY_pairs)

\* The (name, value) pairs of the foregrounds.
FG_pairs ==
  << <<"DEFAULT", 39>>, <<"BLACK", 30>>, <<"RED", 31>>, <<"GREEN", 32>>,
     <<"YELLOW", 33>>, <<"BLUE", 34>>, <<"MAGENTA", 35>>, <<"CYAN", 36>>,
     <<"WHITE", 37>>, <<"B_BLACK", 90>>, <<"B_RED", 91>>, <<"B_GREEN", 92>>,
     <<"B_YELLOW", 93>>, <<"B_BLUE", 94>>, <<"B_MAGENTA", 95>>,
     <<"B_CYAN", 96>>, <<"B_WHITE", 97>> >>

\* FG = EnumCodes('FG', ...)
FG == EnumCodes(FG_pairs)

\* The generator with one step too few between foreground and background.
BG_source_plus1(fg) == [k \in DOMAIN fg |-> <<fg[k][1], fg[k][2] + 1>>]

\* ((each.name, each.value+10) for each in FG), for the members fg of FG.
BG_source(fg) == [k \in DOMAIN fg |-> <<fg[k][1], fg[k][2] + 10>>]

\* BG = EnumCodes('BG', ((each.name, each.value+10) for each in FG))
BG == EnumCodes(BG_source(FG_pairs))

\* The enumeration class of a given name.
EnumClass(cls) ==
  CASE cls = "STY" -> STY
    [] cls = "FG" -> FG
    [] cls = "BG" -> BG

EnumNames == {"STY", "FG", "BG"}

\* ------------------------------------------------------------ values passed
\* A value a caller passes as a code: an int, a member of an enumeration
\* (an int subclass), a str, or None.
IntArg(n) == [type |-> "int", name |-> "", num |-> n, text |-> <<>>]
EnumArg(cls, n) == [type |-> cls, name |-> n, num |-> 0, text |-> <<>>]
StrArg(s) == [type |-> "str", name |-> "", num |-> 0, text |-> s]
NoneArg == [type |-> "NoneType", name |-> "", num |-> 0, text |-> <<>>]

\* The values the client passes as codes: 1, FG.RED, -1, 256, "x" and None.
CodeArgs ==
  {IntArg(1), EnumArg("FG", "RED"), IntArg(-1), IntArg(256),
   StrArg(<<120>>), NoneArg}

\* The texts the client renders: "" and "X".
Texts == {<<>>, <<88>>}

\* Sequences over S of length at most n.
SeqsUpTo(S, n) == UNION {[1..k -> S] : k \in 0..n}

\* -------------------------------------------------------------- conversions
NoError == "None"

IsDigit(c) == c \in DIGIT_ZERO..(DIGIT_ZERO + 9)

\* The value of a string of decimal digits.
RECURSIVE DigitsValue(_)
DigitsValue(s) ==
  IF s = <<>> THEN 0
  ELSE 10 * DigitsValue(SubSeq(s, 1, Len(s) - 1)) + (s[Len(s)] - DIGIT_ZERO)

\* int(x): an int or an enumeration member is its value, a str is parsed as
\* an optionally signed decimal (ValueError otherwise), None is a TypeError.
int(x) ==
  CASE x.type = "int" -> [raised |-> NoError, val |-> x.num]
    [] x.type \in EnumNames -> [raised |-> NoError, val |-> EnumClass(x.type)[x.name]]
    [] x.type = "str" ->
         LET neg == x.text # <<>> /\ x.text[1] = MINUS
             digits == IF neg THEN Tail(x.text) ELSE x.text
         IN IF digits # <<>> /\ \A k \in 1..Len(digits) : IsDigit(digits[k])
            THEN [raised |-> NoError,
                  val |-> IF neg THEN -DigitsValue(digits) ELSE DigitsValue(digits)]
            ELSE [raised |-> "ValueError", val |-> 0]
    [] OTHER -> [raised |-> "TypeError", val |-> 0]

\* str(n) of an int: its decimal digits, "-" first when negative.
RECURSIVE str(_)
str(n) ==
  IF n < 0 THEN <<MINUS>> \o str(-n)
  ELSE IF n < 10 THEN <<DIGIT_ZERO + n>>
  ELSE str(n \div 10) \o <<DIGIT_ZERO + (n % 10)>>

\* sep.join(parts)
RECURSIVE join(_, _)
join(sep, parts) ==
  IF parts = <<>> THEN <<>>
  ELSE IF Len(parts) = 1 THEN parts[1]
  ELSE parts[1] \o sep \o join(sep, Tail(parts))

\* ------------------------------------------------------------------ class Seq
csi_starter == <<ESC, LBRACKET>>
csi_ender == <<LOWER_M>>
csi_resetter == csi_starter \o csi_ender

\* InByteRange with the upper limit off by one.
InByteRange_upto256(n) == n \in 0..256

\* A byte of a bytes object.
InByteRange(n) == n \in 0..255

\* bytes.__new__(cls, map(int, codes)): the items are converted and stored
\* one by one, and the first one that does not convert (the error of int)
\* or is not in range(0, 256) (ValueError) ends the construction.
RECURSIVE bytes_new(_, _)
bytes_new(codes, done) ==
  IF codes = <<>> THEN [raised |-> NoError, codes |-> done]
  ELSE LET c == int(Head(codes))
       IN IF c.raised # NoError THEN [raised |-> c.raised, codes |-> <<>>]
          ELSE IF ~InByteRange(c.val) THEN [raised |-> "ValueError", codes |-> <<>>]
          ELSE bytes_new(Tail(codes), Append(done, c.val))

\* The __dict__ of a new instance: nothing is cached.  A cached value is
\* held as a one-element sequence, a missing one as the empty sequence.
EmptyDict == [csi_attributes |-> <<>>, csi_seq |-> <<>>]

\* No object: what an unbound variable holds, and what a call that returns
\* no Seq returns.
NoObj == [cls |-> "NoneType", codes |-> <<>>, dict |-> EmptyDict]

\* Seq.__new__(cls, *codes): the new object, or the error raised.
Seq_new(codes) ==
  LET b == bytes_new(codes, <<>>)
  IN IF b.raised # NoError
     THEN [raised |-> b.raised, obj |-> NoObj]
     ELSE [raised |-> NoError,
           obj |-> [cls |-> "Seq", codes |-> b.codes, dict |-> EmptyDict]]

\* IterSeq yielding each byte as a str of one character, not as an int.
IterSeq_chars(obj) == [k \in 1..Len(obj.codes) |-> StrArg(<<obj.codes[k]>>)]

\* Iterating a Seq yields its bytes as ints.
IterSeq(obj) == [k \in 1..Len(obj.codes) |-> IntArg(obj.codes[k])]

\* s without the elements that occurred before.
RECURSIVE Dedup(_)
Dedup(s) ==
  IF s = <<>> THEN <<>>
  ELSE LET d == Dedup(SubSeq(s, 1, Len(s) - 1))
       IN IF \E k \in 1..Len(d) : d[k] = s[Len(s)] THEN d ELSE Append(d, s[Len(s)])

\* csi_attributes_func joining each code once.
csi_attributes_func_dedup(obj) ==
  join(<<SEMICOLON>>, [k \in 1..Len(Dedup(obj.codes)) |-> str(Dedup(obj.codes)[k])])

\* The body of csi_attributes: ';'.join(map(str, self)).
csi_attributes_func(obj) ==
  join(<<SEMICOLON>>, [k \in 1..Len(obj.codes) |-> str(obj.codes[k])])

\* csi_attributes using up the codes it reads, as the iteration of a
\* generator would.
csi_attributes_consuming(obj) ==
  [value |-> csi_attributes_func(obj),
   obj |-> [obj EXCEPT !.codes = <<>>]]

\* Reading the cached property csi_attributes: the value in __dict__ if
\* there is one, else the body's value, which is stored in __dict__.
csi_attributes(obj) ==
  IF obj.dict.csi_attributes # <<>>
  THEN [value |-> obj.dict.csi_attributes[1], obj |-> obj]
  ELSE LET v == csi_attributes_func(obj)
       IN [value |-> v,
           obj |-> [obj EXCEPT !.dict.csi_attributes = <<v>>]]

\* csi_seq_func writing the reset code 0 when there are no attributes.
csi_seq_func_zero(obj) ==
  LET a == csi_attributes(obj)
  IN [value |-> csi_starter \o (IF a.value = <<>> THEN <<DIGIT_ZERO>> ELSE a.value)
                  \o csi_ender,
      obj |-> a.obj]

\* The body of csi_seq: f"{self.csi_starter}{self.csi_attributes}{self.csi_ender}",
\* which reads the cached property csi_attributes.
csi_seq_func(obj) ==
  LET a == csi_attributes(obj)
  IN [value |-> csi_starter \o a.value \o csi_ender, obj |-> a.obj]

\* Reading the cached property csi_seq.
csi_seq(obj) ==
  IF obj.dict.csi_seq # <<>>
  THEN [value |-> obj.dict.csi_seq[1], obj |-> obj]
  ELSE LET r == csi_seq_func(obj)
       IN [value |-> r.value,
           obj |-> [r.obj EXCEPT !.dict.csi_seq = <<r.value>>]]

\* BindReset with reset=False as the default.
BindReset_off(reset) == IF reset = <<>> THEN FALSE ELSE reset[1]

\* The parameters of render(self, text, reset=True) bound to the arguments
\* of a call: reset is <<>> when the caller leaves it out.
BindReset(reset) == IF reset = <<>> THEN TRUE ELSE reset[1]

\* render: f"{self.csi_seq}{text}{self.csi_resetter if reset else ''}"
render(obj, text, reset) ==
  LET s == csi_seq(obj)
  IN [value |-> s.value \o text \o (IF BindReset(reset) THEN csi_resetter ELSE <<>>),
      obj |-> s.obj]

\* __call__(self, *t, **d): self.render(*t, **d)
Seq_call(obj, text, reset) == render(obj, text, reset)

\* __str__ returning the attributes without the CSI starter and ender.
Seq_str_attributes(obj) == csi_attributes(obj)

\* __str__: self.csi_seq
Seq_str(obj) == csi_seq(obj)

\* s in ascending order.
RECURSIVE Sorted(_)
Sorted(s) ==
  IF s = <<>> THEN <<>>
  ELSE LET m == CHOOSE k \in 1..Len(s) : \A j \in 1..Len(s) : s[k].num <= s[j].num
       IN <<s[m]>> \o Sorted(SubSeq(s, 1, m - 1) \o SubSeq(s, m + 1, Len(s)))

\* __add__ whose result keeps the __dict__ of self, as a cache kept per class
\* or copied with the object would.
Seq_add_sharing(self, other) ==
  LET r == Seq_new(IterSeq(self) \o IterSeq(other))
  IN [r EXCEPT !.obj.dict = self.dict]

\* __add__ chaining other before self.
Seq_add_swapped(self, other) == Seq_new(IterSeq(other) \o IterSeq(self))

\* __add__ putting the reset code 0 between the two operands.
Seq_add_reset(self, other) == Seq_new(IterSeq(self) \o <<IntArg(0)>> \o IterSeq(other))

\* __add__ ordering the codes of the result.
Seq_add_sorted(self, other) == Seq_new(Sorted(IterSeq(self) \o IterSeq(other)))

\* __add__: self.__class__(*itertools.chain(self, other))
Seq_add(self, other) == Seq_new(IterSeq(self) \o IterSeq(other))

\* __radd__: self.__class__(*itertools.chain(other, self))
Seq_radd(self, other) == Seq_new(IterSeq(other) \o IterSeq(self))

\* ------------------------------------------------------------------ the calls
\* What a call left: the method called (op), the variable assigned (target,
\* "" for none), the receiver (self, a variable, "" for none), the
\* arguments (args: the codes; other: the Seq operand of +, a variable; text,
\* reset), the exception class raised (NoError for none), the type of the
\* value returned ("" for none) and the value: the Seq (obj) or the str
\* (value).
NoCall ==
  [op |-> "", target |-> "", self |-> "", other |-> "", args |-> <<>>,
   text |-> <<>>, reset |-> <<>>, raised |-> NoError, type |-> "",
   obj |-> NoObj, value |-> <<>>]

\* The reset arguments of a call of render: left out, True, False.
ResetArgs == {<<>>, <<TRUE>>, <<FALSE>>}

\* The variables that hold a Seq.
Bound == {v \in Names : heap[v].cls = "Seq"}

\* The outcome of a call that returns a new Seq or raises.
Returned(call, r) ==
  IF r.raised # NoError
  THEN [call EXCEPT !.raised = r.raised]
  ELSE [call EXCEPT !.type = "Seq", !.obj = r.obj]

\* The state after a call on the Seq of v that returns a str: the receiver
\* is as the call left it.
ReturnedStr(call, v, r) ==
  /\ heap' = [heap EXCEPT ![v] = r.obj]
  /\ result' = [call EXCEPT !.type = "str", !.value = r.value]

ColorInit ==
  /\ heap = [v \in Names |-> NoObj]
  /\ result = NoCall

\* v = Seq(*codes), for a variable v the client has not assigned yet: v is
\* assigned only if the call returns.
Construct(v, codes) ==
  /\ LET r == Seq_new(codes)
     IN /\ v \notin Bound
        /\ result' = Returned([NoCall EXCEPT !.op = "__new__", !.target = v,
                                             !.args = codes], r)
        /\ heap' = IF r.raised # NoError THEN heap ELSE [heap EXCEPT ![v] = r.obj]
  /\ UNCHANGED notColorVars

\* v.csi_attributes
GetCsiAttributes(v) ==
  /\ ReturnedStr([NoCall EXCEPT !.op = "csi_attributes", !.self = v], v,
                 csi_attributes(heap[v]))
  /\ UNCHANGED notColorVars

\* v.csi_seq
GetCsiSeq(v) ==
  /\ ReturnedStr([NoCall EXCEPT !.op = "csi_seq", !.self = v], v, csi_seq(heap[v]))
  /\ UNCHANGED notColorVars

\* v.render(text) or v.render(text, reset)
Render(v, text, reset) ==
  /\ ReturnedStr([NoCall EXCEPT !.op = "render", !.self = v, !.text = text,
                                !.reset = reset],
                 v, render(heap[v], text, reset))
  /\ UNCHANGED notColorVars

\* v(text) or v(text, reset)
Call(v, text, reset) ==
  /\ ReturnedStr([NoCall EXCEPT !.op = "__call__", !.self = v, !.text = text,
                                !.reset = reset],
                 v, Seq_call(heap[v], text, reset))
  /\ UNCHANGED notColorVars

\* str(v)
Str(v) ==
  /\ ReturnedStr([NoCall EXCEPT !.op = "__str__", !.self = v], v, Seq_str(heap[v]))
  /\ UNCHANGED notColorVars

\* v + w
Add(v, w) ==
  /\ /\ result' = Returned([NoCall EXCEPT !.op = "__add__", !.self = v, !.other = w],
                           Seq_add(heap[v], heap[w]))
     /\ heap' = heap
  /\ UNCHANGED notColorVars

\* w + v, when it is v.__radd__ that is called
Radd(v, w) ==
  /\ /\ result' = Returned([NoCall EXCEPT !.op = "__radd__", !.self = v, !.other = w],
                           Seq_radd(heap[v], heap[w]))
     /\ heap' = heap
  /\ UNCHANGED notColorVars


\* ------------------------------------------------- the enumerations of codes
\* The import of pyopg.color creates STY, FG and BG in this order, each
\* member by member; members holds the (name, value) pairs created so far,
\* looked what the last creation or lookup left.
NoLook == [op |-> "", cls |-> "", name |-> "", num |-> 0, raised |-> NoError,
           pair |-> <<>>]

\* Lookups by value are made for 0..MaxLookup.
MaxLookup == 110

\* EnumCodes.__init__: the value must be in range(256).
EnumCodes_init(value) == IF value \in 0..255 THEN NoError ELSE "ValueError"

\* Iterating an enumeration yields its members in the order of definition,
\* without the aliases: the names given to a value that has a member.
RECURSIVE EnumIter(_)
EnumIter(ms) ==
  IF ms = <<>> THEN <<>>
  ELSE LET head == EnumIter(SubSeq(ms, 1, Len(ms) - 1))
           final == ms[Len(ms)]
       IN IF \E k \in 1..Len(head) : head[k][2] = final[2] THEN head
          ELSE Append(head, final)

\* The pairs a class is created from: the literals of STY and FG, and for BG
\* the generator over the members of FG.
EnumSource(cls) ==
  CASE cls = "STY" -> STY_pairs
    [] cls = "FG" -> FG_pairs
    [] cls = "BG" -> BG_source(EnumIter(members["FG"]))

\* The class is created when all its pairs are members.
Created(cls) == Len(members[cls]) = Len(EnumSource(cls))

\* The class that is being created, "" when all are.
Creating ==
  IF ~Created("STY") THEN "STY"
  ELSE IF ~Created("FG") THEN "FG"
  ELSE IF ~Created("BG") THEN "BG"
  ELSE ""

Imported == Creating = "" /\ looked.raised = NoError

\* The names the client looks up: every name of a style or a foreground.
LookupNames ==
  {STY_pairs[k][1] : k \in DOMAIN STY_pairs} \cup {FG_pairs[k][1] : k \in DOMAIN FG_pairs}

EnumInit ==
  /\ members = [cls \in EnumNames |-> <<>>]
  /\ looked = NoLook

\* The next member of the class being created: __init__ checks its value,
\* and a ValueError ends the import.
CreateMember ==
  /\ Creating # ""
  /\ looked.raised = NoError
  /\ LET cls == Creating
         pair == EnumSource(cls)[Len(members[cls]) + 1]
         err == EnumCodes_init(pair[2])
     IN /\ looked' = [NoLook EXCEPT !.op = "__init__", !.cls = cls,
                                    !.name = pair[1], !.num = pair[2],
                                    !.raised = err]
        /\ members' = IF err # NoError THEN members
                      ELSE [members EXCEPT ![cls] = Append(@, pair)]
  /\ UNCHANGED notEnumVars

\* cls.name.pair: the (name, value) of the member, AttributeError when the
\* class has no such name.
GetPair(cls, name) ==
  /\ Imported
  /\ members' = members
  /\ looked' =
       IF \E k \in 1..Len(members[cls]) : members[cls][k][1] = name
       THEN [NoLook EXCEPT !.op = "pair", !.cls = cls, !.name = name,
               !.pair = members[cls][CHOOSE k \in 1..Len(members[cls]) :
                                       members[cls][k][1] = name]]
       ELSE [NoLook EXCEPT !.op = "pair", !.cls = cls, !.name = name,
               !.raised = "AttributeError"]
  /\ UNCHANGED notEnumVars

\* cls(n): the member of that value, ValueError when the class has none.
ByValue(cls, n) ==
  /\ Imported
  /\ members' = members
  /\ looked' =
       LET ms == EnumIter(members[cls])
       IN IF \E k \in 1..Len(ms) : ms[k][2] = n
          THEN [NoLook EXCEPT !.op = "__call__", !.cls = cls, !.num = n,
                  !.pair = ms[CHOOSE k \in 1..Len(ms) : ms[k][2] = n]]
          ELSE [NoLook EXCEPT !.op = "__call__", !.cls = cls, !.num = n,
                  !.raised = "ValueError"]
  /\ UNCHANGED notEnumVars


\* ------------------------------------------------- the logging of calls
\* A program loads pyopg.log and pyopg.debug, makes one logging decorator or
\* context manager (tool) and uses it at most MaxCalls times.  entries is
\* what the loggers were given, frame the position of the current use.
MaxCalls == 2

\* The logger given to a tool: a logging.Logger, or None.
Loggers == {"L", "None"}

\* reprArgs of a call, and the line of a with statement.
Arguments == {"1", "2"}

\* What a function returns; a block that completes gives None.
ReturnValues == {"x", "y"}

\* What a function or a block raises: an Exception, a BaseException that is
\* no Exception, and an Exception whose instances are false (__bool__).
Exceptions == {"ValueError", "KeyboardInterrupt", "FalsyError"}

\* isinstance(exc, Exception)
IsException(exc) == exc \in {"ValueError", "FalsyError"}

\* bool(x) of an exception, of a logger, or of None.
Bool(x) == x \notin {"None", "FalsyError"}

Outcome(how, what) == [how |-> how, what |-> what]
NoOutcome == Outcome("", "None")
FuncOutcomes ==
  {Outcome("returned", v) : v \in ReturnValues} \cup {Outcome("raised", e) : e \in Exceptions}
BlockOutcomes ==
  {Outcome("returned", "None")} \cup {Outcome("raised", e) : e \in Exceptions}

Decorators == {"debug.Logged", "debug.loggedFunc", "log.decorator", "log.Tracker"}
Managers == {"debug.Logged", "debug.loggedContext", "log.context", "log.Tracker"}

\* wrapped: the decoration returned a wrapper and not the function itself;
\* invocation: Tracker's self.__invocation.
NoTool == [kind |-> "", use |-> "", logger |-> "None", wrapped |-> FALSE,
           invocation |-> "None"]

NoFrame == [pc |-> "idle", arg |-> "None", first |-> 0, body |-> NoOutcome,
            out |-> NoOutcome, n |-> 0]

\* The global name logger of pyopg.log: bound by the module's own demo only,
\* when the module runs as __main__.
GlobalLogger == IF loaded = "__main__" THEN "G" ELSE "undefined"

\* lg.log(level, f'{about} {event}: {data}') onto the entries es.
Log(es, lg, about, event, data) ==
  IF lg = "undefined" THEN [raised |-> "NameError", entries |-> es]
  ELSE IF lg = "None" THEN [raised |-> "AttributeError", entries |-> es]
  ELSE [raised |-> NoError,
        entries |-> Append(es, [logger |-> lg, about |-> about,
                                event |-> event, data |-> data])]

\* if self.__invocation is None: self.__invocation = ...
Tracker_invocation(t, arg) == IF t.invocation = "None" THEN arg ELSE t.invocation

\* Tracker.__enter__ and __exit__ log to the global name logger.
Tracker_logger(t) == GlobalLogger

\* A decorator that wraps also when it has no logger.
Decorates_always(kind, lg) == TRUE

\* Logged.__call__ and loggedFunc return func itself when "not logger".
Decorates(kind, lg) ==
  IF kind \in {"debug.Logged", "debug.loggedFunc"} THEN Bool(lg) ELSE TRUE

\* A closing step that handles the exception it logged.
Propagate_handled(outcome, logged) ==
  IF outcome.how = "raised" /\ logged THEN Outcome("returned", "None") ELSE outcome

\* raise, return result, return False of __exit__: the caller sees what
\* the function or the block did.
Propagate(outcome, logged) == outcome

\* A frame can start when none is running, MaxCalls times.
CanStart(use) ==
  /\ tool.use = use
  /\ frame.pc \in {"idle", "done"}
  /\ frame.n < MaxCalls

\* The frame after a step that logged r: running the body, or done with
\* the exception of the logging.
Started(arg, r) ==
  IF r.raised # NoError
  THEN [NoFrame EXCEPT !.pc = "done", !.arg = arg, !.first = Len(entries),
                       !.out = Outcome("raised", r.raised), !.n = frame.n + 1]
  ELSE [NoFrame EXCEPT !.pc = "running", !.arg = arg, !.first = Len(entries),
                       !.n = frame.n + 1]

\* The frame after the closing step: done, with what the caller sees.
Finished(outcome, r, logged) ==
  [frame EXCEPT !.pc = "done", !.body = outcome,
                !.out = IF r.raised # NoError THEN Outcome("raised", r.raised)
                        ELSE Propagate(outcome, logged)]

Unlogged == [raised |-> NoError, entries |-> entries]

LogInit ==
  /\ loaded = ""
  /\ tool = NoTool
  /\ entries = <<>>
  /\ frame = NoFrame

\* import pyopg.log, or python -m pyopg.log
Load(name) ==
  /\ loaded = ""
  /\ loaded' = name
  /\ UNCHANGED <<tool, entries, frame>>
  /\ UNCHANGED notLogVars

\* f = kind(lg)(func)
Decorate(kind, lg) ==
  /\ loaded # ""
  /\ tool = NoTool
  /\ tool' = [NoTool EXCEPT !.kind = kind, !.use = "decorator", !.logger = lg,
                            !.wrapped = Decorates(kind, lg)]
  /\ UNCHANGED <<loaded, entries, frame>>
  /\ UNCHANGED notLogVars

\* cm = kind(lg), for the with statements
Manage(kind, lg) ==
  /\ loaded # ""
  /\ tool = NoTool
  /\ tool' = [NoTool EXCEPT !.kind = kind, !.use = "with", !.logger = lg]
  /\ UNCHANGED <<loaded, entries, frame>>
  /\ UNCHANGED notLogVars

\* f(arg), up to the call of the wrapped function.
Wrapper_start(arg) ==
  /\ CanStart("decorator")
  /\ LET t == IF tool.kind = "log.Tracker"
              THEN [tool EXCEPT !.invocation = Tracker_invocation(tool, arg)]
              ELSE tool
         r == CASE ~tool.wrapped -> Unlogged
                [] tool.kind = "log.Tracker" ->
                     Log(entries, Tracker_logger(t), t.invocation, "entering", "None")
                [] OTHER -> Log(entries, tool.logger, arg, "starting", "None")
     IN /\ tool' = t
        /\ frame' = Started(arg, r)
        /\ entries' = r.entries
  /\ loaded' = loaded
  /\ UNCHANGED notLogVars

\* The wrapped function returns or raises, and the wrapper closes.
Wrapper_end(outcome) ==
  /\ tool.use = "decorator"
  /\ frame.pc = "running"
  /\ LET logs == CASE ~tool.wrapped -> FALSE
                   [] tool.kind = "log.Tracker" -> TRUE
                   [] OTHER -> outcome.how = "returned" \/ IsException(outcome.what)
         r == CASE ~logs -> Unlogged
                [] tool.kind = "log.Tracker" ->
                     Log(entries, Tracker_logger(tool), tool.invocation,
                         IF outcome.how = "raised" THEN "raised" ELSE "exited",
                         IF outcome.how = "raised" THEN outcome.what ELSE "None")
                [] OTHER -> Log(entries, tool.logger, frame.arg, outcome.how, outcome.what)
     IN /\ frame' = Finished(outcome, r, logs)
        /\ entries' = r.entries
  /\ UNCHANGED <<loaded, tool>>
  /\ UNCHANGED notLogVars

\* with cm: at the line arg, up to the block.
Enter(arg) ==
  /\ CanStart("with")
  /\ LET t == IF tool.kind = "log.Tracker"
              THEN [tool EXCEPT !.invocation = Tracker_invocation(tool, arg)]
              ELSE tool
         r == CASE tool.kind = "log.Tracker" ->
                     Log(entries, Tracker_logger(t), t.invocation, "entering", "None")
                [] tool.kind = "log.context" ->
                     Log(entries, tool.logger, arg, "entered", "None")
                [] ~Bool(tool.logger) -> Unlogged
                [] tool.kind = "debug.Logged" ->
                     Log(entries, tool.logger, arg, "entering", "None")
                [] OTHER -> Log(entries, tool.logger, arg, "entered", "None")
     IN /\ tool' = t
        /\ frame' = Started(arg, r)
        /\ entries' = r.entries
  /\ loaded' = loaded
  /\ UNCHANGED notLogVars

\* The block completes or raises, and the context manager exits.
Exit(outcome) ==
  /\ tool.use = "with"
  /\ frame.pc = "running"
  /\ LET raised == outcome.how = "raised"
         event == CASE tool.kind = "log.Tracker" ->
                         IF raised THEN "raised" ELSE "exited"
                    [] tool.kind = "debug.Logged" ->
                         IF raised /\ Bool(outcome.what) THEN "raised" ELSE "exited"
                    [] OTHER ->
                         IF ~raised THEN "exited"
                         ELSE IF IsException(outcome.what) THEN "raised" ELSE ""
         logs == event # "" /\ (tool.kind \in {"log.Tracker", "log.context"} \/ Bool(tool.logger))
         r == IF ~logs THEN Unlogged
              ELSE Log(entries,
                       IF tool.kind = "log.Tracker" THEN Tracker_logger(tool) ELSE tool.logger,
                       IF tool.kind = "log.Tracker" THEN tool.invocation ELSE frame.arg,
                       event, IF event = "raised" THEN outcome.what ELSE "None")
     IN /\ frame' = Finished(outcome, r, logs)
        /\ entries' = r.entries
  /\ UNCHANGED <<loaded, tool>>
  /\ UNCHANGED notLogVars

\* ------------------------------------------------- the data descriptors
\* A class C with the descriptors a and b of its body, a descriptor x that is
\* assigned to C.x after the class was created, and the instances of C.
\* descs holds the descriptors' own fields, dicts every instance's __dict__
\* (a function on the descriptors that have a value), answer what the last
\* operation gave.  last is history: per instance and descriptor the value of
\* the most recent set, Unset after a delete.
Instances == {"c1", "c2"}
BodyDescs == {"a", "b"}
Descs == BodyDescs \cup {"x"}
Values == {"v", "d"}
NotGiven == "NotImplemented"
Defaults == {NotGiven, "d"}
Unset == "Unset"

\* DataDescriptor.__init__, made once it ran.
NoDesc == [made |-> FALSE, default |-> NotGiven, objclass |-> "None",
           name |-> "None"]
DataDescriptor_init(default) == [NoDesc EXCEPT !.made = TRUE, !.default = default]

\* __set_name__(owner, name)
set_name(desc, owner, name) == [desc EXCEPT !.objclass = owner, !.name = name]

\* _check_set_name: AttributeError unless __set_name__ has run.
check_set_name(desc) ==
  IF desc.objclass = "None" \/ desc.name = "None" THEN "AttributeError" ELSE NoError

NoAnswer == [op |-> "", inst |-> "None", desc |-> "", arg |-> "None",
             raised |-> NoError, type |-> "NoneType", value |-> "None",
             before |-> Unset]

\* A get that takes the default for a value also when none was given.
DataDescriptor_get_anydefault(ds, dd, i, d) ==
  IF check_set_name(ds[d]) # NoError
  THEN [raised |-> check_set_name(ds[d]), type |-> "NoneType", value |-> "None"]
  ELSE IF i = "None"
  THEN [raised |-> NoError, type |-> "DataDescriptor", value |-> d]
  ELSE IF d \in DOMAIN dd[i]
  THEN [raised |-> NoError, type |-> "object", value |-> dd[i][d]]
  ELSE [raised |-> NoError, type |-> "object", value |-> ds[d].default]

\* __get__(instance, owner): the descriptor itself for the class, else
\* instance.__dict__[self], and on KeyError the default or AttributeError.
DataDescriptor_get(ds, dd, i, d) ==
  IF check_set_name(ds[d]) # NoError
  THEN [raised |-> check_set_name(ds[d]), type |-> "NoneType", value |-> "None"]
  ELSE IF i = "None"
  THEN [raised |-> NoError, type |-> "DataDescriptor", value |-> d]
  ELSE IF d \in DOMAIN dd[i]
  THEN [raised |-> NoError, type |-> "object", value |-> dd[i][d]]
  ELSE IF ds[d].default = NotGiven
  THEN [raised |-> "AttributeError", type |-> "NoneType", value |-> "None"]
  ELSE [raised |-> NoError, type |-> "object", value |-> ds[d].default]

\* A set that keeps the value once for all instances.
DataDescriptor_set_shared(ds, dd, i, d, value) ==
  IF check_set_name(ds[d]) # NoError
  THEN [raised |-> check_set_name(ds[d]), dicts |-> dd]
  ELSE [raised |-> NoError,
        dicts |-> [j \in DOMAIN dd |->
                     [k \in DOMAIN dd[j] \cup {d} |-> IF k = d THEN value ELSE dd[j][k]]]]

\* __set__(instance, value): instance.__dict__[self] = value
DataDescriptor_set(ds, dd, i, d, value) ==
  IF check_set_name(ds[d]) # NoError
  THEN [raised |-> check_set_name(ds[d]), dicts |-> dd]
  ELSE [raised |-> NoError,
        dicts |-> [dd EXCEPT ![i] =
                     [k \in DOMAIN dd[i] \cup {d} |-> IF k = d THEN value ELSE dd[i][k]]]]

\* __delete__(instance): del instance.__dict__[self], KeyError becomes
\* AttributeError.
DataDescriptor_delete(ds, dd, i, d) ==
  IF check_set_name(ds[d]) # NoError
  THEN [raised |-> check_set_name(ds[d]), dicts |-> dd]
  ELSE IF d \notin DOMAIN dd[i]
  THEN [raised |-> "AttributeError", dicts |-> dd]
  ELSE [raised |-> NoError,
        dicts |-> [dd EXCEPT ![i] = [k \in DOMAIN dd[i] \ {d} |-> dd[i][k]]]]

DescInit ==
  /\ descs = [d \in Descs |-> NoDesc]
  /\ dicts = [i \in Instances |-> <<>>]
  /\ answer = NoAnswer
  /\ last = [i \in Instances |-> [d \in Descs |-> Unset]]

\* class C: a = DataDescriptor(...); b = DataDescriptor(...)
\* The class creation calls __set_name__ of each.
DefineClass(defaults) ==
  /\ \A d \in BodyDescs : ~descs[d].made
  /\ descs' = [d \in Descs |->
                 IF d \in BodyDescs
                 THEN set_name(DataDescriptor_init(defaults[d]), "C", d)
                 ELSE descs[d]]
  /\ answer' = [NoAnswer EXCEPT !.op = "class"]
  /\ UNCHANGED <<dicts, last>>
  /\ UNCHANGED notDescVars

\* C.x = DataDescriptor(default): no __set_name__ is called.
Attach(default) ==
  /\ \A d \in BodyDescs : descs[d].made
  /\ ~descs["x"].made
  /\ descs' = [descs EXCEPT !["x"] = DataDescriptor_init(default)]
  /\ answer' = [NoAnswer EXCEPT !.op = "attach", !.desc = "x"]
  /\ UNCHANGED <<dicts, last>>
  /\ UNCHANGED notDescVars

\* i.d, and C.d for the instance None
Get(i, d) ==
  /\ descs[d].made
  /\ LET r == DataDescriptor_get(descs, dicts, i, d)
     IN answer' = [NoAnswer EXCEPT !.op = "get", !.inst = i, !.desc = d,
                     !.raised = r.raised, !.type = r.type, !.value = r.value,
                     !.before = IF i = "None" THEN Unset ELSE last[i][d]]
  /\ UNCHANGED <<descs, dicts, last>>
  /\ UNCHANGED notDescVars

\* i.d = value
Set(i, d, value) ==
  /\ descs[d].made
  /\ LET r == DataDescriptor_set(descs, dicts, i, d, value)
     IN /\ answer' = [NoAnswer EXCEPT !.op = "set", !.inst = i, !.desc = d,
                        !.arg = value, !.raised = r.raised, !.before = last[i][d]]
        /\ dicts' = r.dicts
        /\ last' = IF r.raised # NoError THEN last
                   ELSE [last EXCEPT ![i][d] = value]
  /\ descs' = descs
  /\ UNCHANGED notDescVars

\* del i.d
Delete(i, d) ==
  /\ descs[d].made
  /\ LET r == DataDescriptor_delete(descs, dicts, i, d)
     IN /\ answer' = [NoAnswer EXCEPT !.op = "delete", !.inst = i, !.desc = d,
                        !.raised = r.raised, !.before = last[i][d]]
        /\ dicts' = r.dicts
  /\ last' = [last EXCEPT ![i][d] = Unset]
  /\ descs' = descs
  /\ UNCHANGED notDescVars

\* ------------------------------------------------------- the specifications
Init ==
  /\ ColorInit
  /\ EnumInit
  /\ LogInit
  /\ DescInit

\* A client of color.Seq.
Next ==
  \/ \E v \in Names, codes \in SeqsUpTo(CodeArgs, MaxLen) : Construct(v, codes)
  \/ \E v \in Bound : GetCsiAttributes(v)
  \/ \E v \in Bound : GetCsiSeq(v)
  \/ \E v \in Bound, text \in Texts, reset \in ResetArgs : Render(v, text, reset)
  \/ \E v \in Bound, text \in Texts, reset \in ResetArgs : Call(v, text, reset)
  \/ \E v \in Bound : Str(v)
  \/ \E v, w \in Bound : Add(v, w)
  \/ \E v, w \in Bound : Radd(v, w)

Spec == Init /\ [][Next]_vars

\* The import of pyopg.color and the lookups of its enumerations.
NextEnum ==
  \/ CreateMember
  \/ \E cls \in EnumNames, name \in LookupNames : GetPair(cls, name)
  \/ \E cls \in EnumNames, n \in 0..MaxLookup : ByValue(cls, n)

SpecEnum == Init /\ [][NextEnum]_vars

\* A program that logs the calls of a function or the blocks of with statements.
NextLog ==
  \/ \E name \in {"pyopg.log", "__main__"} : Load(name)
  \/ \E kind \in Decorators, lg \in Loggers : Decorate(kind, lg)
  \/ \E kind \in Managers, lg \in Loggers : Manage(kind, lg)
  \/ \E arg \in Arguments : Wrapper_start(arg)
  \/ \E outcome \in FuncOutcomes : Wrapper_end(outcome)
  \/ \E arg \in Arguments : Enter(arg)
  \/ \E outcome \in BlockOutcomes : Exit(outcome)

SpecLog == Init /\ [][NextLog]_vars

\* A program that reads, sets and deletes the descriptors of the instances.
NextDesc ==
  \/ \E defaults \in [BodyDescs -> Defaults] : DefineClass(defaults)
  \/ \E default \in Defaults : Attach(default)
  \/ \E i \in Instances \cup {"None"}, d \in Descs : Get(i, d)
  \/ \E i \in Instances, d \in Descs, value \in Values : Set(i, d, value)
  \/ \E i \in Instances, d \in Descs : Delete(i, d)

SpecDesc == Init /\ [][NextDesc]_vars


\* ------------------------------------------------------------- the properties
\* The exception classes of the construction's one error kind, which the
\* specification calls InvalidCodeError.
InvalidCodeError == {"ValueError", "TypeError"}

\* The value passed converts to an integer in [0,256).
ValidCode(x) == int(x).raised = NoError /\ int(x).val >= 0 /\ int(x).val < 256

\* The integer values of the values passed.
IntValues(args) == [k \in 1..Len(args) |-> int(args[k]).val]

\* The fields of s between its semicolons.
RECURSIVE Fields(_)
Fields(s) ==
  IF \A k \in 1..Len(s) : s[k] # 59 THEN <<s>>
  ELSE LET k == CHOOSE k \in 1..Len(s) : s[k] = 59 /\ \A j \in 1..(k - 1) : s[j] # 59
       IN <<SubSeq(s, 1, k - 1)>> \o Fields(SubSeq(s, k + 1, Len(s)))

\* The number a string of digits writes.
RECURSIVE DecimalValue(_)
DecimalValue(s) ==
  IF s = <<>> THEN 0 ELSE 10 * DecimalValue(SubSeq(s, 1, Len(s) - 1)) + (s[Len(s)] - 48)

\* s is the decimal string of n: digits only, no leading zero, writing n.
IsDecimalOf(s, n) ==
  /\ s # <<>>
  /\ \A k \in 1..Len(s) : s[k] \in 48..57
  /\ Len(s) > 1 => s[1] # 48
  /\ DecimalValue(s) = n

\* s is the ';'-joined decimal strings of codes, in order.
IsJoinedDecimals(s, codes) ==
  IF codes = <<>> THEN s = <<>>
  ELSE /\ Len(Fields(s)) = Len(codes)
       /\ \A k \in 1..Len(codes) : IsDecimalOf(Fields(s)[k], codes[k])

\* The object Seq(*codes) returns, for ints.
SeqOf(ints) == Seq_new([k \in 1..Len(ints) |-> IntArg(ints[k])]).obj

\* The calls that return a str, and the two forms of +.
StrOps == {"csi_attributes", "csi_seq", "render", "__call__", "__str__"}
AddOps == {"__add__", "__radd__"}

\* The codes of the left and of the right operand of the + that was called.
LeftCodes ==
  IF result.op = "__add__" THEN heap[result.self].codes ELSE heap[result.other].codes
RightCodes ==
  IF result.op = "__add__" THEN heap[result.other].codes ELSE heap[result.self].codes

\* C1: Seq(*codes) with a code that does not convert to an integer, or
\* converts to one outside [0,256), raises the construction error, returns no
\* Seq and leaves the variable unassigned; Seq(256) and Seq(-1) raise.
C1_ConstructRejectsInvalidCodes ==
  /\ (result.op = "__new__" /\ \E k \in 1..Len(result.args) : ~ValidCode(result.args[k]))
       => /\ result.raised \in InvalidCodeError
          /\ result.type = ""
          /\ result.obj = NoObj
          /\ heap[result.target] = NoObj
  /\ Seq_new(<<IntArg(256)>>).raised \in InvalidCodeError
  /\ Seq_new(<<IntArg(-1)>>).raised \in InvalidCodeError

\* A construction with a valid first code and 256 as the second has raised.
C1_Witness ==
  /\ result.op = "__new__"
  /\ Len(result.args) = 2
  /\ ValidCode(result.args[1])
  /\ result.args[2] = IntArg(256)
  /\ result.raised = "ValueError"

\* C2: Seq(*c) of valid codes holds the integer values of c in order, and
\* csi_attributes of a Seq is the ';'-joined decimal strings of its codes in
\* order, repeats kept, the empty string for no codes.
C2_AttributesJoinCodesInOrder ==
  /\ (result.op = "__new__" /\ \A k \in 1..Len(result.args) : ValidCode(result.args[k]))
       => /\ result.raised = NoError
          /\ result.obj.codes = IntValues(result.args)
          /\ heap[result.target].codes = IntValues(result.args)
  /\ result.op = "csi_attributes"
       => IsJoinedDecimals(result.value, heap[result.self].codes)
  /\ csi_attributes(SeqOf(<<>>)).value = <<>>
  /\ csi_attributes(SeqOf(<<1, 4, 31>>)).value = <<49, 59, 52, 59, 51, 49>>
  /\ csi_attributes(SeqOf(<<0, 107, 255>>)).value
       = <<48, 59, 49, 48, 55, 59, 50, 53, 53>>

\* csi_attributes of a Seq of the same code twice has returned both.
C2_Witness ==
  /\ result.op = "csi_attributes"
  /\ heap[result.self].codes = <<31, 31>>
  /\ result.value = <<51, 49, 59, 51, 49>>

\* C3: csi_seq of a Seq is ESC "[" followed by its csi_attributes followed
\* by "m"; Seq() gives "\x1b[m" and Seq(1,4,31) gives "\x1b[1;4;31m".
C3_EscapeSequenceWrapsAttributes ==
  /\ result.op = "csi_seq"
       => /\ result.value = <<27, 91>> \o csi_attributes(heap[result.self]).value \o <<109>>
          /\ heap[result.self].codes = <<>> => result.value = <<27, 91, 109>>
  /\ csi_seq(SeqOf(<<>>)).value = <<27, 91, 109>>
  /\ csi_seq(SeqOf(<<1, 4, 31>>)).value = <<27, 91, 49, 59, 52, 59, 51, 49, 109>>

\* csi_seq of Seq() has returned "\x1b[m".
C3_Witness ==
  /\ result.op = "csi_seq"
  /\ heap[result.self].codes = <<>>
  /\ result.value = <<27, 91, 109>>

\* C4: render(text, reset), and the call of the object itself, return
\* csi_seq + text + "\x1b[m" when reset is true or left out, and
\* csi_seq + text when reset is false.
C4_RenderWrapsText ==
  /\ result.op \in {"render", "__call__"}
       => result.value =
            csi_seq(heap[result.self]).value \o result.text
              \o (IF result.reset = <<FALSE>> THEN <<>> ELSE <<27, 91, 109>>)
  /\ \A text \in Texts, reset \in ResetArgs :
       Seq_call(SeqOf(<<1>>), text, reset).value = render(SeqOf(<<1>>), text, reset).value
  /\ render(SeqOf(<<1>>), <<88>>, <<TRUE>>).value = <<27, 91, 49, 109, 88, 27, 91, 109>>
  /\ render(SeqOf(<<1>>), <<88>>, <<FALSE>>).value = <<27, 91, 49, 109, 88>>

\* render("X") with reset left out has returned a str that ends with the
\* reset sequence.
C4_Witness ==
  /\ result.op = "render"
  /\ result.text = <<88>>
  /\ result.reset = <<>>
  /\ heap[result.self].codes # <<>>
  /\ SubSeq(result.value, Len(result.value) - 3, Len(result.value)) = <<88, 27, 91, 109>>

\* C5: a + b, by __add__ or by __radd__, returns a new Seq whose codes are
\* a's codes followed by b's codes, so that its csi_attributes is the one of
\* the Seq constructed from both lists; Seq(1,4) + Seq(31) has "1;4;31".
C5_ConcatenateAppendsCodes ==
  /\ result.op \in AddOps
       => /\ result.type = "Seq"
          /\ result.obj.cls = "Seq"
          /\ result.obj.codes = LeftCodes \o RightCodes
          /\ IsJoinedDecimals(csi_attributes(result.obj).value, LeftCodes \o RightCodes)
          /\ csi_attributes(result.obj).value
               = csi_attributes(SeqOf(LeftCodes \o RightCodes)).value
  /\ csi_attributes(Seq_add(SeqOf(<<1, 4>>), SeqOf(<<31>>)).obj).value
       = <<49, 59, 52, 59, 51, 49>>
  /\ csi_attributes(Seq_radd(SeqOf(<<31>>), SeqOf(<<1, 4>>)).obj).value
       = <<49, 59, 52, 59, 51, 49>>

\* Seq(1, 31) + Seq(31) has returned Seq(1, 31, 31).
C5_Witness ==
  /\ result.op = "__add__"
  /\ heap[result.self].codes = <<1, 31>>
  /\ heap[result.other].codes = <<31>>
  /\ result.obj.codes = <<1, 31, 31>>

\* The Seq objects of the state: the ones the client holds and the one the
\* last call returned.
Objects == {heap[v] : v \in Bound} \cup (IF result.type = "Seq" THEN {result.obj} ELSE {})

\* C6: + is associative, (a + b) + c and a + (b + c) having the same codes,
\* csi_attributes and csi_seq, and Seq() is its identity on both sides.
C6_ConcatenateAssociative ==
  /\ \A x, y, z \in Objects :
       LET l == Seq_add(Seq_add(x, y).obj, z).obj
           r == Seq_add(x, Seq_add(y, z).obj).obj
       IN /\ l.cls = "Seq" /\ r.cls = "Seq"
          /\ l.codes = r.codes
          /\ csi_attributes(l).value = csi_attributes(r).value
          /\ csi_seq(l).value = csi_seq(r).value
  /\ \A x \in Objects :
       /\ Seq_add(x, SeqOf(<<>>)).obj.codes = x.codes
       /\ Seq_add(SeqOf(<<>>), x).obj.codes = x.codes
       /\ Seq_radd(x, SeqOf(<<>>)).obj.codes = x.codes
       /\ Seq_radd(SeqOf(<<>>), x).obj.codes = x.codes

\* Two different Seq objects with codes have been concatenated: the state
\* holds three different Seq objects with codes.
C6_Witness ==
  /\ result.op = "__add__"
  /\ result.type = "Seq"
  /\ heap[result.self].codes # <<>>
  /\ heap[result.other].codes # <<>>
  /\ heap[result.self].codes # heap[result.other].codes
  /\ Cardinality({o.codes : o \in Objects}) = 3

\* C7: no call changes the codes of a Seq the client holds: every one keeps
\* the codes it was constructed with, and + leaves its operands as they
\* were.
C7_SequenceImmutable ==
  [][/\ \A v \in Bound : heap'[v].cls = "Seq" /\ heap'[v].codes = heap[v].codes
     /\ result'.op \in AddOps => heap' = heap]_vars

\* A Seq with codes has been rendered, which cached its csi_seq, and then
\* concatenated.
C7_Witness ==
  /\ result.op \in AddOps
  /\ heap[result.self].codes = <<1, 31>>
  /\ heap[result.self].dict.csi_seq = << <<27, 91, 49, 59, 51, 49, 109>> >>

\* C8: only the construction raises: csi_attributes, csi_seq, render, the
\* call of the object, str() and + of Seq objects return.
C8_OnlyConstructionFails ==
  /\ result.raised # NoError => result.op = "__new__"
  /\ result.op \in StrOps => result.raised = NoError /\ result.type = "str"
  /\ result.op \in AddOps => result.raised = NoError /\ result.type = "Seq"

\* __radd__ has returned a Seq for two Seq objects with codes.
C8_Witness ==
  /\ result.op = "__radd__"
  /\ result.raised = NoError
  /\ heap[result.self].codes # <<>>
  /\ heap[result.other].codes # <<>>

\* C9: + is not commutative: a + b and b + a have the same csi_attributes
\* only when a's codes followed by b's are b's followed by a's;
\* Seq(1) + Seq(31) has "1;31" and Seq(31) + Seq(1) has "31;1".
C9_ConcatenateNotCommutative ==
  /\ \A x, y \in Objects :
       csi_attributes(Seq_add(x, y).obj).value = csi_attributes(Seq_add(y, x).obj).value
         => x.codes \o y.codes = y.codes \o x.codes
  /\ csi_attributes(Seq_add(SeqOf(<<1>>), SeqOf(<<31>>)).obj).value = <<49, 59, 51, 49>>
  /\ csi_attributes(Seq_add(SeqOf(<<31>>), SeqOf(<<1>>)).obj).value = <<51, 49, 59, 49>>

\* Seq(1) + Seq(31) has returned a Seq whose csi_attributes differs from the
\* one of Seq(31) + Seq(1).
C9_Witness ==
  /\ result.op = "__add__"
  /\ heap[result.self].codes = <<1>>
  /\ heap[result.other].codes = <<31>>
  /\ csi_attributes(result.obj).value = <<49, 59, 51, 49>>
  /\ csi_attributes(Seq_add(heap[result.other], heap[result.self]).obj).value
       = <<51, 49, 59, 49>>

\* C10: str() of a Seq returns its csi_seq.
C10_StrIsEscapeSequence ==
  /\ result.op = "__str__"
       => /\ result.value = csi_seq(heap[result.self]).value
          /\ result.value = <<27, 91>> \o csi_attributes_func(heap[result.self]) \o <<109>>
  /\ Seq_str(SeqOf(<<1, 4, 31>>)).value = csi_seq(SeqOf(<<1, 4, 31>>)).value

\* str() of Seq(31, 1) has returned "\x1b[31;1m".
C10_Witness ==
  /\ result.op = "__str__"
  /\ heap[result.self].codes = <<31, 1>>
  /\ result.value = <<27, 91, 51, 49, 59, 49, 109>>

\* The strings computed from the codes alone, by a new object that has cached
\* nothing.
EagerAttributes(codes) == csi_attributes(SeqOf(codes)).value
EagerSeq(codes) == csi_seq(SeqOf(codes)).value

\* C12: the cached strings are never stale: what __dict__ holds, and what
\* csi_attributes, csi_seq, render, the call and str() return, is what the
\* codes of the object give when computed anew, and the Seq that + returns
\* has cached nothing and gives the strings of its own codes.
C12_CacheNeverStale ==
  /\ \A v \in Bound :
       /\ heap[v].dict.csi_attributes \in {<<>>, <<EagerAttributes(heap[v].codes)>>}
       /\ heap[v].dict.csi_seq \in {<<>>, <<EagerSeq(heap[v].codes)>>}
       /\ IsJoinedDecimals(csi_attributes(heap[v]).value, heap[v].codes)
       /\ csi_seq(heap[v]).value = EagerSeq(heap[v].codes)
  /\ result.op = "csi_attributes"
       => result.value = EagerAttributes(heap[result.self].codes)
  /\ result.op \in {"csi_seq", "__str__"}
       => result.value = EagerSeq(heap[result.self].codes)
  /\ result.op \in {"render", "__call__"}
       => result.value = render(SeqOf(heap[result.self].codes), result.text,
                                result.reset).value
  /\ result.op \in AddOps
       => /\ result.obj.dict = EmptyDict
          /\ csi_attributes(result.obj).value = EagerAttributes(result.obj.codes)
          /\ csi_seq(result.obj).value = EagerSeq(result.obj.codes)
          /\ IsJoinedDecimals(csi_attributes(result.obj).value, LeftCodes \o RightCodes)

\* A Seq that has cached both strings has been concatenated with another
\* one, and the result has other codes and no cache.
C12_Witness ==
  /\ result.op = "__add__"
  /\ heap[result.self].dict.csi_attributes # <<>>
  /\ heap[result.self].dict.csi_seq # <<>>
  /\ heap[result.other].codes # <<>>
  /\ result.obj.codes # heap[result.self].codes
  /\ result.obj.dict = EmptyDict

\* The names and the values of the members of a class.
MemberNames(cls) == {members[cls][k][1] : k \in 1..Len(members[cls])}
MemberValues(cls) == {members[cls][k][2] : k \in 1..Len(members[cls])}

\* The value of the member of that name.
MemberValue(cls, name) ==
  members[cls][CHOOSE k \in 1..Len(members[cls]) : members[cls][k][1] = name][2]

\* C11: BG is derived from FG: it has a member of every name of FG, of the
\* value of FG's plus 10, and no other member; every value of STY, FG and BG
\* is in [0,256): styles 0-9, foregrounds 30-37, 39 and 90-97, backgrounds
\* 40-47, 49 and 100-107.
C11_BackgroundsDerivedFromForegrounds ==
  /\ looked.op = "__init__" => looked.raised = NoError
  /\ \A cls \in EnumNames : \A v \in MemberValues(cls) : v >= 0 /\ v < 256
  /\ \A n \in MemberNames("BG") :
       n \in MemberNames("FG") /\ MemberValue("BG", n) = MemberValue("FG", n) + 10
  /\ Creating = ""
       => /\ MemberNames("BG") = MemberNames("FG")
          /\ Len(members["BG"]) = Len(members["FG"])
          /\ MemberValues("STY") = 0..9
          /\ MemberValues("FG") = (30..37) \cup {39} \cup (90..97)
          /\ MemberValues("BG") = (40..47) \cup {49} \cup (100..107)
          /\ \A cls \in EnumNames : EnumCodes(members[cls]) = EnumClass(cls)
  /\ (looked.op = "pair" /\ looked.cls = "BG" /\ looked.name \in MemberNames("FG"))
       => /\ looked.raised = NoError
          /\ looked.pair = <<looked.name, MemberValue("FG", looked.name) + 10>>

\* After the import, BG.B_WHITE.pair has given ("B_WHITE", 107).
C11_Witness ==
  /\ Creating = ""
  /\ looked.op = "pair"
  /\ looked.cls = "BG"
  /\ looked.pair = <<"B_WHITE", 107>>

\* The entries of the current call or with statement.
Mine == SubSeq(entries, frame.first + 1, Len(entries))

Entry(lg, about, event, data) ==
  [logger |-> lg, about |-> about, event |-> event, data |-> data]

LoggingDecorators == {"debug.Logged", "debug.loggedFunc", "log.decorator"}
LoggingManagers == {"debug.Logged", "debug.loggedContext", "log.context"}

\* C13: a function decorated by debug.Logged, debug.loggedFunc or
\* log.decorator with a logger logs on every call 'starting' before the
\* function runs, then exactly one closing entry: 'returned: <result>' when
\* it returned, and the wrapper returns that result, or 'raised: ...' when it
\* raised an Exception, and that exception reaches the caller; with no
\* logger debug.Logged and debug.loggedFunc return the function itself and
\* nothing is ever logged.
C13_DecoratorLogsStartAndClose ==
  (tool.use = "decorator" /\ tool.kind \in LoggingDecorators) =>
    LET starting == Entry(tool.logger, frame.arg, "starting", "None")
    IN /\ Bool(tool.logger) =>
            /\ tool.wrapped
            /\ \A k \in 1..Len(entries) : entries[k].logger = tool.logger
            /\ frame.pc = "running" => Mine = <<starting>>
            /\ (frame.pc = "done" /\ frame.body.how = "returned") =>
                 /\ Mine = <<starting,
                             Entry(tool.logger, frame.arg, "returned", frame.body.what)>>
                 /\ frame.out = frame.body
            /\ (frame.pc = "done" /\ frame.body.how = "raised"
                  /\ IsException(frame.body.what)) =>
                 /\ Mine = <<starting,
                             Entry(tool.logger, frame.arg, "raised", frame.body.what)>>
                 /\ frame.out = frame.body
       /\ (~Bool(tool.logger) /\ tool.kind \in {"debug.Logged", "debug.loggedFunc"}) =>
            /\ ~tool.wrapped
            /\ entries = <<>>
            /\ frame.pc = "done" => frame.out = frame.body

\* The second call of a function decorated by log.decorator with a logger
\* has raised a ValueError: two entries, and the error at the caller.
C13_Witness ==
  /\ tool.use = "decorator"
  /\ tool.kind = "log.decorator"
  /\ tool.logger = "L"
  /\ frame.n = 2
  /\ frame.pc = "done"
  /\ frame.out = Outcome("raised", "ValueError")
  /\ Len(Mine) = 2
  /\ Mine[2].event = "raised"

\* The event of the first entry of a with statement.
EnterEvent(kind) == IF kind = "debug.Logged" THEN "entering" ELSE "entered"

\* C14, as stated: for every with-block of debug.Logged, debug.loggedContext
\* or log.context an 'entering'/'entered' entry is logged first, then exactly
\* one closing entry, 'exited' if the block completed and 'raised' if it
\* raised, and the exception raised in the block propagates.
C14_EveryBlockLogsEnterAndClose ==
  (tool.use = "with" /\ tool.kind \in LoggingManagers) =>
    /\ frame.pc = "running" =>
         Len(Mine) = 1 /\ Mine[1].event \in {"entering", "entered"}
    /\ frame.pc = "done" =>
         /\ Len(Mine) = 2
         /\ Mine[1].event \in {"entering", "entered"}
         /\ Mine[2].event = IF frame.body.how = "raised" THEN "raised" ELSE "exited"
         /\ frame.out = frame.body

\* C14, amended: the exception a block raises always propagates; with a
\* logger the 'entering'/'entered' entry is logged first and then at most one
\* closing entry: 'exited' if the block completed, 'raised' if it raised an
\* Exception (debug.Logged: any exception that is true, while one that is
\* false gives 'exited'), and none from debug.loggedContext and log.context
\* for an exception that is no Exception; with no logger debug.Logged and
\* debug.loggedContext log nothing, and log.context raises AttributeError
\* before the block.
C14_ManagerNeverSwallows ==
  (tool.use = "with" /\ tool.kind \in LoggingManagers) =>
    LET entered == Entry(tool.logger, frame.arg, EnterEvent(tool.kind), "None")
        exited == Entry(tool.logger, frame.arg, "exited", "None")
        raised == Entry(tool.logger, frame.arg, "raised", frame.body.what)
    IN /\ (frame.pc = "done" /\ frame.body # NoOutcome) => frame.out = frame.body
       /\ Bool(tool.logger) =>
            /\ \A k \in 1..Len(entries) : entries[k].logger = tool.logger
            /\ frame.pc = "running" => Mine = <<entered>>
            /\ (frame.pc = "done" /\ frame.body.how = "returned") =>
                 Mine = <<entered, exited>>
            /\ (frame.pc = "done" /\ frame.body.how = "raised") =>
                 Mine = IF tool.kind = "debug.Logged"
                        THEN <<entered, IF Bool(frame.body.what) THEN raised ELSE exited>>
                        ELSE IF IsException(frame.body.what)
                             THEN <<entered, raised>>
                             ELSE <<entered>>
       /\ ~Bool(tool.logger) =>
            /\ entries = <<>>
            /\ (tool.kind = "log.context" /\ frame.pc = "done") =>
                 /\ frame.body = NoOutcome
                 /\ frame.out = Outcome("raised", "AttributeError")
            /\ (tool.kind # "log.context" /\ frame.pc = "done") => frame.body # NoOutcome

\* A block of debug.loggedContext with a logger has raised KeyboardInterrupt:
\* it reached the code around, and 'entered' is the only entry.
C14_Witness ==
  /\ tool.use = "with"
  /\ tool.kind = "debug.loggedContext"
  /\ tool.logger = "L"
  /\ frame.pc = "done"
  /\ frame.body = Outcome("raised", "KeyboardInterrupt")
  /\ frame.out = frame.body
  /\ Len(Mine) = 1

\* C15, as stated: log.Tracker logs its entries to the logger passed to its
\* constructor, and the entries of each call or with statement, 'entering'
\* and then 'exited' or 'raised', carry the arguments of that call or the
\* line of that with statement.
C15_TrackerLogsOwnCall ==
  (tool.kind = "log.Tracker" /\ Bool(tool.logger)) =>
    /\ \A k \in 1..Len(entries) : entries[k].logger = tool.logger
    /\ \A k \in 1..Len(Mine) : Mine[k].about = frame.arg
    /\ frame.pc = "running" => Len(Mine) = 1 /\ Mine[1].event = "entering"
    /\ frame.pc = "done" =>
         /\ Len(Mine) = 2
         /\ Mine[2].event = IF frame.body.how = "raised" THEN "raised" ELSE "exited"
         /\ frame.out = frame.body

\* The descriptor is bound to an attribute of the class: __set_name__ ran.
IsBound(d) == descs[d].made /\ check_set_name(descs[d]) = NoError

\* What a get gives for a history: the value of the most recent set, and
\* after a delete or with no set the default, or AttributeError with none.
Expected(held, default) ==
  IF held # Unset THEN [raised |-> NoError, type |-> "object", value |-> held]
  ELSE IF default # NotGiven
  THEN [raised |-> NoError, type |-> "object", value |-> default]
  ELSE [raised |-> "AttributeError", type |-> "NoneType", value |-> "None"]

\* Every get, made or not, gives what the history of its own instance and
\* descriptor tells.
GetFollowsHistory ==
  /\ (answer.op = "get" /\ answer.inst # "None" /\ IsBound(answer.desc)
        /\ answer.before # Unset) =>
       answer.raised = NoError /\ answer.value = answer.before
  /\ \A i \in Instances, d \in Descs :
       IsBound(d) =>
         DataDescriptor_get(descs, dicts, i, d) = Expected(last[i][d], descs[d].default)

\* A step changes what get gives for the instance and descriptor it sets or
\* deletes at most, and no default.
StepIsLocal ==
  /\ \A d \in Descs : descs[d].made => descs'[d].default = descs[d].default
  /\ \A i \in Instances, d \in Descs :
       (IsBound(d) /\ ~(answer'.op \in {"set", "delete"} /\ answer'.inst = i
                          /\ answer'.desc = d)) =>
         DataDescriptor_get(descs', dicts', i, d) = DataDescriptor_get(descs, dicts, i, d)

\* C16: for a bound desc.DataDescriptor, after any sets and deletes, get on
\* an instance returns the value of the most recent set on that instance and
\* descriptor that no delete followed; a set or delete never changes what get
\* returns for another instance or another descriptor, nor a default.
C16_GetReturnsLastSet == []GetFollowsHistory /\ [][StepIsLocal]_vars

\* c1.a was read as "v" while c2.a holds "d", and c2 holds a value of b
\* while c1 holds none.
C16_Witness ==
  /\ answer.op = "get"
  /\ answer.inst = "c1"
  /\ answer.desc = "a"
  /\ answer.value = "v"
  /\ "a" \in DOMAIN dicts["c2"]
  /\ dicts["c2"]["a"] = "d"
  /\ "b" \notin DOMAIN dicts["c1"]
  /\ "b" \in DOMAIN dicts["c2"]

\* A get or a delete with no value, and a get on the class.
NoValueAnswers ==
  /\ (answer.op = "get" /\ answer.inst # "None" /\ IsBound(answer.desc)
        /\ answer.before = Unset) =>
       IF descs[answer.desc].default # NotGiven
       THEN answer.raised = NoError /\ answer.value = descs[answer.desc].default
       ELSE answer.raised = "AttributeError"
  /\ (answer.op = "delete" /\ IsBound(answer.desc) /\ answer.before = Unset) =>
       answer.raised = "AttributeError"
  /\ (answer.op = "get" /\ answer.inst = "None" /\ IsBound(answer.desc)) =>
       /\ answer.raised = NoError
       /\ answer.type = "DataDescriptor"
       /\ answer.value = answer.desc

\* A delete that raises leaves every __dict__ as it was.
FailedDeleteKeeps ==
  (answer'.op = "delete" /\ answer'.raised # NoError) => dicts' = dicts

\* C17: for a bound desc.DataDescriptor, get on an instance that holds no
\* value returns the default if one was given and raises AttributeError
\* otherwise; delete on an instance that holds no value raises
\* AttributeError and leaves all stored values unchanged; get on the class
\* returns the descriptor itself and never raises.
C17_NoValueDefaultOrError == []NoValueAnswers /\ [][FailedDeleteKeeps]_vars

\* del c1.a raised AttributeError, c1 holding no value of a, while c2 holds
\* one.
C17_Witness ==
  /\ answer.op = "delete"
  /\ answer.inst = "c1"
  /\ answer.desc = "a"
  /\ answer.raised = "AttributeError"
  /\ answer.before = Unset
  /\ "a" \in DOMAIN dicts["c2"]

=============================================================================
